---- MODULE Spec2Model ----
(***************************************************************************)
(* A model of embedded-nal's TLS layer (src/src/tls.rs) and address model  *)
(* (src/src/addr.rs): the connector builder, the DnsTls::connect           *)
(* orchestration and HostAddr::from_str.                                   *)
(*                                                                         *)
(* Text is modelled as a sequence of one-character strings, Option<T> as a *)
(* sequence of length 0 (None) or 1 (Some).                                *)
(***************************************************************************)
EXTENDS Integers, Sequences, FiniteSets, TLC

VARIABLES
    builder,       \* TlsConnectorBuilder.0 : the TlsConnectorConfig<()> it wraps
    handed,        \* history: the configurations build handed to the conversion
    buildResult,   \* Option of the last build's return value
    lastSet,       \* history: the argument of the last call of each setter
    attempted,     \* history: the certificates passed to root_certificate
    setterSince,   \* history: a setter ran since the last build (or none yet)
    reused,        \* history: the last build ran on an already built builder
    panicked,      \* a call has panicked; nothing runs afterwards
    calls,         \* number of builder calls made
    input,         \* Option of the arguments a caller is about to pass
    conn,          \* Option of the record of the last DnsTls::connect invocation
    parsed         \* Option of the record of the last HostAddr::from_str call

vars == <<builder, handed, buildResult, lastSet, attempted, setterSince, reused,
          panicked, calls, input, conn, parsed>>

builderVars == <<builder, handed, buildResult, lastSet, attempted, setterSince,
                 reused, calls>>

----------------------------------------------------------------------------
(* Option<T> *)

None == <<>>

Some(x) == <<x>>

IsSome(o) == Len(o) = 1

Unwrapped(o) == o[1]

\* a take that leaves the value in place, as a clone would
OptionTake_cloning(o) == [taken |-> o, left |-> o]

\* Option::take: the value moved out, and None left behind
OptionTake(o) == [taken |-> o, left |-> None]

\* a replace that keeps a value already there, as get_or_insert would
OptionReplace_keeping(o, x) == IF Len(o) = 1 THEN o ELSE <<x>>

\* Option::replace: Some(x) stored whatever was there
OptionReplace(o, x) == Some(x)

----------------------------------------------------------------------------
(* Certificates, keys, identities: borrowed byte slices, named by buffer *)

X509_from_pem(pem) == [enc |-> "Pem", bytes |-> pem]

X509_from_der(der) == [enc |-> "Der", bytes |-> der]

X509_as_bytes(x) == x.bytes

Certificate_from_pem(pem) == [x509 |-> X509_from_pem(pem)]

Certificate_from_der(der) == [x509 |-> X509_from_der(der)]

Certificate_as_bytes(c) == X509_as_bytes(c.x509)

PKey_new_private(key, password) == [key |-> key, password |-> password, role |-> "Private"]

PKey_as_bytes(k) == k.key

Identity_new(cert, private_key) == [cert |-> cert, pkey |-> private_key]

\* the inputs of the model: what a caller passes to the setters
Certificates == {Certificate_from_pem("caA"), Certificate_from_der("caB")}

Identities ==
    { Identity_new(X509_from_pem("certA"), PKey_new_private("keyA", None)),
      Identity_new(X509_from_der("certB"), PKey_new_private("keyB", Some("pwB"))) }

Contexts == {"ctx"}

----------------------------------------------------------------------------
(* Protocol: the enum's discriminants, ordered as derive(Ord) orders them *)

Sslv3 == 0

Tlsv10 == 1

Tlsv11 == 2

Tlsv12 == 3

Protocols == {Sslv3, Tlsv10, Tlsv11, Tlsv12}

ProtocolLe(p, q) == p <= q

Protocol_default == Tlsv10

----------------------------------------------------------------------------
(* TlsConnectorConfig and TlsConnectorBuilder *)

\* consts::U10, the capacity of root_certificates
RootCapacity == 10

\* derive(Default) on TlsConnectorConfig<'a, ()>
TlsConnectorConfig_default ==
    [ context                  |-> "unit",
      identity                 |-> None,
      min_protocol             |-> Protocol_default,
      max_protocol             |-> None,
      root_certificates        |-> <<>>,
      accept_invalid_certs     |-> FALSE,
      accept_invalid_hostnames |-> FALSE,
      use_sni                  |-> FALSE ]

TlsConnectorBuilder_new == TlsConnectorConfig_default

\* a push that drops the item of a full vector and reports success
VecPush_dropping(v, item) ==
    IF Len(v) < RootCapacity
    THEN [ok |-> TRUE, vec |-> Append(v, item)]
    ELSE [ok |-> TRUE, vec |-> v]

\* heapless::Vec::push: Err(item), the vector untouched, when it is full
VecPush(v, item) ==
    IF Len(v) < RootCapacity
    THEN [ok |-> TRUE, vec |-> Append(v, item)]
    ELSE [ok |-> FALSE, vec |-> v]

\* a context that validates the bounds: a max_protocol below min_protocol is
\* raised to min_protocol
context_validating(b, ctx) ==
    [ config |->
        [ context                  |-> ctx,
          identity                 |-> OptionTake(b.identity).taken,
          min_protocol             |-> b.min_protocol,
          max_protocol             |->
              IF IsSome(b.max_protocol) /\ ~ProtocolLe(b.min_protocol, Unwrapped(b.max_protocol))
              THEN Some(b.min_protocol)
              ELSE OptionTake(b.max_protocol).taken,
          root_certificates        |-> b.root_certificates,
          accept_invalid_certs     |-> b.accept_invalid_certs,
          accept_invalid_hostnames |-> b.accept_invalid_hostnames,
          use_sni                  |-> b.use_sni ],
      left |->
        [b EXCEPT !.identity = OptionTake(b.identity).left,
                  !.max_protocol = OptionTake(b.max_protocol).left] ]

\* fn context: the configuration built, and the builder as it is left
context(b, ctx) ==
    [ config |->
        [ context                  |-> ctx,
          identity                 |-> OptionTake(b.identity).taken,
          min_protocol             |-> b.min_protocol,
          max_protocol             |-> OptionTake(b.max_protocol).taken,
          root_certificates        |-> b.root_certificates,
          accept_invalid_certs     |-> b.accept_invalid_certs,
          accept_invalid_hostnames |-> b.accept_invalid_hostnames,
          use_sni                  |-> b.use_sni ],
      left |->
        [b EXCEPT !.identity = OptionTake(b.identity).left,
                  !.max_protocol = OptionTake(b.max_protocol).left] ]

\* the accessors of TlsConnectorConfig
Config_identity(c) == c.identity

Config_min_protocol(c) == c.min_protocol

Config_max_protocol(c) == c.max_protocol

Config_root_certificates(c) == c.root_certificates

Config_accept_invalid_certs(c) == c.accept_invalid_certs

Config_accept_invalid_hostnames(c) == c.accept_invalid_hostnames

Config_use_sni(c) == c.use_sni

NeverSet ==
    [ identity |-> None, min_protocol |-> None, max_protocol |-> None,
      accept_invalid_certs |-> None, accept_invalid_hostnames |-> None,
      use_sni |-> None ]

\* nothing has been called yet on a builder fresh from TlsConnectorBuilder::new
Fresh ==
    /\ builder = TlsConnectorBuilder_new
    /\ handed = <<>>
    /\ buildResult = None
    /\ lastSet = NeverSet
    /\ attempted = <<>>
    /\ setterSince = FALSE
    /\ reused = FALSE
    /\ panicked = FALSE
    /\ calls = 0
    /\ conn = None
    /\ parsed = None

Init == Fresh /\ input = None

\* what every setter does besides its own assignment
SetterFrame ==
    /\ ~panicked
    /\ calls' = calls + 1
    /\ setterSince' = TRUE
    /\ UNCHANGED <<handed, buildResult, reused, input, conn, parsed>>

identity(id) ==
    /\ SetterFrame
    /\ builder' = [builder EXCEPT !.identity = OptionReplace(@, id)]
    /\ lastSet' = [lastSet EXCEPT !.identity = Some(id)]
    /\ UNCHANGED <<attempted, panicked>>

min_protocol_version(protocol) ==
    /\ SetterFrame
    /\ builder' = [builder EXCEPT !.min_protocol = protocol]
    /\ lastSet' = [lastSet EXCEPT !.min_protocol = Some(protocol)]
    /\ UNCHANGED <<attempted, panicked>>

max_protocol_version(protocol) ==
    /\ SetterFrame
    /\ builder' = [builder EXCEPT !.max_protocol = OptionReplace(@, protocol)]
    /\ lastSet' = [lastSet EXCEPT !.max_protocol = Some(protocol)]
    /\ UNCHANGED <<attempted, panicked>>

\* push(cert).expect(..): the expect panics when the vector is full
root_certificate(cert) ==
    /\ SetterFrame
    /\ LET r == VecPush(builder.root_certificates, cert)
       IN /\ builder' = [builder EXCEPT !.root_certificates = r.vec]
          /\ panicked' = ~r.ok
    /\ attempted' = Append(attempted, cert)
    /\ UNCHANGED lastSet

danger_accept_invalid_certs(accept_invalid_certs) ==
    /\ SetterFrame
    /\ builder' = [builder EXCEPT !.accept_invalid_certs = accept_invalid_certs]
    /\ lastSet' = [lastSet EXCEPT !.accept_invalid_certs = Some(accept_invalid_certs)]
    /\ UNCHANGED <<attempted, panicked>>

use_sni(sni) ==
    /\ SetterFrame
    /\ builder' = [builder EXCEPT !.use_sni = sni]
    /\ lastSet' = [lastSet EXCEPT !.use_sni = Some(sni)]
    /\ UNCHANGED <<attempted, panicked>>

danger_accept_invalid_hostnames(accept_invalid_hostnames) ==
    /\ SetterFrame
    /\ builder' = [builder EXCEPT !.accept_invalid_hostnames = accept_invalid_hostnames]
    /\ lastSet' = [lastSet EXCEPT !.accept_invalid_hostnames = Some(accept_invalid_hostnames)]
    /\ UNCHANGED <<attempted, panicked>>

\* fn build: self.context(ctx).try_into(); the conversion is the backend's and
\* may accept the configuration or reject it
build(ctx, accepted) ==
    /\ ~panicked
    /\ LET c == context(builder, ctx)
       IN /\ builder' = c.left
          /\ handed' = Append(handed, c.config)
          /\ buildResult' = Some(IF accepted
                                 THEN [tag |-> "Ok", connector |-> c.config]
                                 ELSE [tag |-> "Err", error |-> "ConversionError"])
    /\ reused' = (Len(handed) >= 1 /\ ~setterSince)
    /\ setterSince' = FALSE
    /\ calls' = calls + 1
    /\ UNCHANGED <<lastSet, attempted, panicked, input, conn, parsed>>

----------------------------------------------------------------------------
(* The builder driven by a caller: any setter, any build *)

MaxCalls == 5

NextBuilder ==
    \/ \E id \in Identities : calls < MaxCalls /\ identity(id)
    \/ \E p \in Protocols : calls < MaxCalls /\ min_protocol_version(p)
    \/ \E p \in Protocols : calls < MaxCalls /\ max_protocol_version(p)
    \/ \E cert \in Certificates : calls < MaxCalls /\ root_certificate(cert)
    \/ \E f \in BOOLEAN : calls < MaxCalls /\ danger_accept_invalid_certs(f)
    \/ \E f \in BOOLEAN : calls < MaxCalls /\ use_sni(f)
    \/ \E f \in BOOLEAN : calls < MaxCalls /\ danger_accept_invalid_hostnames(f)
    \/ \E ctx \in Contexts, ok \in BOOLEAN : calls < MaxCalls /\ build(ctx, ok)

SpecBuilder == Init /\ [][NextBuilder]_vars

(* The builder driven to its trust-root capacity: root_certificate until the *)
(* vector is full and past it, with builds in between                        *)

MaxRootBuilds == 2

NextRoots ==
    \/ \E cert \in Certificates : root_certificate(cert)
    \/ \E ctx \in Contexts, ok \in BOOLEAN :
          Len(handed) < MaxRootBuilds /\ build(ctx, ok)

SpecRoots == Init /\ [][NextRoots]_vars

----------------------------------------------------------------------------
(* Claims about the builder *)

Last(q) == q[Len(q)]

Min(a, b) == IF a <= b THEN a ELSE b

OrDefault(o, d) == IF IsSome(o) THEN Unwrapped(o) ELSE d

BuildStep == Len(handed') = Len(handed) + 1

\* C4: the trust-root set never holds more than RootCapacity certificates; it is
\* always the first RootCapacity certificates passed to root_certificate, in the
\* order passed; a call past the capacity is a failure (the expect panics), and
\* only such a call is; every configuration handed out shows a set within the
\* capacity that is a prefix of the certificates passed.
C4_RootsBounded ==
    /\ Len(builder.root_certificates) <= RootCapacity
    /\ builder.root_certificates =
          SubSeq(attempted, 1, Min(Len(attempted), RootCapacity))
    /\ panicked <=> Len(attempted) > RootCapacity
    /\ \A i \in 1..Len(handed) :
          LET roots == Config_root_certificates(handed[i])
          IN /\ Len(roots) <= RootCapacity
             /\ roots = SubSeq(attempted, 1, Len(roots))

\* C4 witness: the 11th insertion has failed, the first 10 are in place, both
\* certificates among them, and a configuration was built on the way
C4_Witness ==
    /\ panicked
    /\ Len(attempted) = RootCapacity + 1
    /\ Len(builder.root_certificates) = RootCapacity
    /\ builder.root_certificates[1] # builder.root_certificates[2]
    /\ Len(handed) = 1
    /\ Len(Config_root_certificates(handed[1])) = RootCapacity

\* C5: a configuration built while use_sni(..) was never called reports
\* use_sni() = true.
C5_SniDefaultsTrue ==
    \A i \in 1..Len(handed) :
        lastSet.use_sni = None => Config_use_sni(handed[i]) = TRUE

\* C6: the first build of a fresh builder hands out a configuration that shows,
\* for each field, the argument of the last call of its setter, and for a field
\* never set its default: min_protocol Tlsv10, max_protocol and identity absent,
\* both accept_invalid flags false (use_sni is compared only when it was set).
C6_FirstBuildShowsLastSet ==
    [][ (Len(handed) = 0 /\ BuildStep) =>
          LET c == handed'[1]
          IN /\ Config_identity(c) = lastSet.identity
             /\ Config_min_protocol(c) = OrDefault(lastSet.min_protocol, Tlsv10)
             /\ Config_max_protocol(c) = lastSet.max_protocol
             /\ Config_accept_invalid_certs(c)
                   = OrDefault(lastSet.accept_invalid_certs, FALSE)
             /\ Config_accept_invalid_hostnames(c)
                   = OrDefault(lastSet.accept_invalid_hostnames, FALSE)
             /\ IsSome(lastSet.use_sni)
                   => Config_use_sni(c) = Unwrapped(lastSet.use_sni)
      ]_vars

\* C6 witness: a first build right after three setter calls that set identity
\* and danger_accept_invalid_hostnames(true) and left min_protocol alone
C6_Witness ==
    /\ Len(handed) = 1
    /\ calls >= 4
    /\ ~setterSince
    /\ IsSome(lastSet.identity)
    /\ Config_identity(handed[1]) = lastSet.identity
    /\ lastSet.accept_invalid_hostnames = Some(TRUE)
    /\ lastSet.min_protocol = None
    /\ Config_min_protocol(handed[1]) = Tlsv10

\* C9: a build that follows a build with no setter call in between hands out a
\* configuration without identity and without max_protocol, whose min_protocol,
\* root certificates and three flags are those of the build before.
C9_SecondBuildEmptied ==
    reused =>
        LET first == handed[Len(handed) - 1]
            second == handed[Len(handed)]
        IN /\ Config_identity(second) = None
           /\ Config_max_protocol(second) = None
           /\ Config_min_protocol(second) = Config_min_protocol(first)
           /\ Config_root_certificates(second) = Config_root_certificates(first)
           /\ Config_accept_invalid_certs(second) = Config_accept_invalid_certs(first)
           /\ Config_accept_invalid_hostnames(second)
                 = Config_accept_invalid_hostnames(first)
           /\ Config_use_sni(second) = Config_use_sni(first)

\* C9 witness: two builds in a row, the first of which carried an identity and
\* a max_protocol
C9_Witness ==
    /\ reused
    /\ IsSome(Config_identity(handed[Len(handed) - 1]))
    /\ IsSome(Config_max_protocol(handed[Len(handed) - 1]))

\* C10 as stated: build never hands out a configuration whose max_protocol is
\* set and lower than its min_protocol.
C10_MinLeMax ==
    \A i \in 1..Len(handed) :
        IsSome(Config_max_protocol(handed[i])) =>
            ProtocolLe(Config_min_protocol(handed[i]),
                       Unwrapped(Config_max_protocol(handed[i])))

\* C10 amended: build does not compare the two bounds; the configuration it
\* hands out carries the builder's min_protocol and max_protocol as they are,
\* whatever their order.
C10_BuildPassesBounds ==
    [][ BuildStep =>
          /\ Config_min_protocol(Last(handed')) = builder.min_protocol
          /\ Config_max_protocol(Last(handed')) = builder.max_protocol
      ]_vars

\* C10 witness: a configuration handed out with max_protocol below min_protocol
C10_Witness ==
    \E i \in 1..Len(handed) :
        /\ IsSome(Config_max_protocol(handed[i]))
        /\ ~ProtocolLe(Config_min_protocol(handed[i]),
                       Unwrapped(Config_max_protocol(handed[i])))

----------------------------------------------------------------------------
(* Text: str::rsplitn and str::parse::<u16> *)

Digits == <<"0", "1", "2", "3", "4", "5", "6", "7", "8", "9">>

IsDigit(c) == \E i \in 1..Len(Digits) : Digits[i] = c

DigitValue(c) == (CHOOSE i \in 1..Len(Digits) : Digits[i] = c) - 1

\* u16::MAX
U16Max == 65535

\* the place of the last occurrence of c in s, 0 when there is none
LastIndexOf(s, c) ==
    IF \E i \in 1..Len(s) : s[i] = c
    THEN CHOOSE i \in 1..Len(s) : s[i] = c /\ \A j \in (i + 1)..Len(s) : s[j] # c
    ELSE 0

\* addr.rsplitn(2, ':') as the sequence of the items the iterator yields: the
\* text after the last ':' first, then the text before it; the whole text alone
\* when it holds no ':'
RSplitN2(s, c) ==
    LET k == LastIndexOf(s, c)
    IN IF k = 0
       THEN <<s>>
       ELSE <<SubSeq(s, k + 1, Len(s)), SubSeq(s, 1, k - 1)>>

\* Iterator::next on the items left: the item as an Option, and the rest
IterNext(items) ==
    IF items = <<>>
    THEN [item |-> None, rest |-> <<>>]
    ELSE [item |-> Some(Head(items)), rest |-> Tail(items)]

RECURSIVE ParseDigits(_, _)
\* the digits of s folded into acc with checked_mul and checked_add: None on a
\* character that is no digit and on a value past u16::MAX
ParseDigits(s, acc) ==
    IF s = <<>>
    THEN Some(acc)
    ELSE IF ~IsDigit(Head(s))
    THEN None
    ELSE IF acc * 10 + DigitValue(Head(s)) > U16Max
    THEN None
    ELSE ParseDigits(Tail(s), acc * 10 + DigitValue(Head(s)))

\* str::parse::<u16>: Some(value) for Ok, None for Err; one leading '+' is
\* accepted, an empty text and a text without digits are not
ParseU16(s) ==
    IF s = <<>>
    THEN None
    ELSE LET digits == IF Head(s) = "+" THEN Tail(s) ELSE s
         IN IF digits = <<>> THEN None ELSE ParseDigits(digits, 0)

----------------------------------------------------------------------------
(* HostAddr, HostSocketAddr *)

HostAddr_new(ip, hostname) == [ip |-> ip, hostname |-> hostname]

HostSocketAddr_new(addr, port) == [addr |-> addr, port |-> port]

----------------------------------------------------------------------------
(* DnsTls::connect *)

\* nb::Result<(), Tls::Error> and a panic, as the outcomes of a call
Done == [tag |-> "Ok", error |-> None]

WouldBlock == [tag |-> "WouldBlock", error |-> None]

\* nb::Error::Other(e), also what `?` makes of an error through From
Other(e) == [tag |-> "Err", error |-> Some(e)]

Panic(what) == [tag |-> "Panic", error |-> Some(what)]

\* <T as Dns>::Error: Into<<T as Tls>::Error>
DnsErrorInto(e) == [tls_error |-> "FromDns", source |-> e]

\* the calls made on the collaborators
GetHostByName(hostname, addr_type) ==
    [fn |-> "Dns::get_host_by_name", name |-> hostname, addr_type |-> addr_type,
     socket |-> None, remote |-> None, connector |-> None]

TlsConnect(socket, remote, connector) ==
    [fn |-> "Tls::connect", name |-> None, addr_type |-> None,
     socket |-> Some(socket), remote |-> Some(remote), connector |-> Some(connector)]

\* a connect that calls Tls::connect again itself when it would block, and
\* gives up with an error when it would block again
DnsTls_connect_blocking(socket, addr, connector, dns, tls) ==
    LET first == IterNext(RSplitN2(addr, ":"))
        second == IterNext(first.rest)
        hostname == Unwrapped(first.item)
    IN IF ~IsSome(second.item)
       THEN [calls |-> <<>>, result |-> Panic("unwrap on None")]
       ELSE IF ~IsSome(ParseU16(Unwrapped(second.item)))
       THEN [calls |-> <<>>, result |-> Panic("unwrap on Err")]
       ELSE LET port == Unwrapped(ParseU16(Unwrapped(second.item)))
                lookup == GetHostByName(hostname, "IPv4")
                delegate == TlsConnect(socket,
                                       HostSocketAddr_new(Unwrapped(dns.addr), port),
                                       connector)
            IN IF dns.tag = "Err"
               THEN [calls |-> <<lookup>>,
                     result |-> Other(DnsErrorInto(Unwrapped(dns.error)))]
               ELSE IF tls = WouldBlock
               THEN [calls |-> <<lookup, delegate, delegate>>,
                     result |-> Other("TimedOut")]
               ELSE [calls |-> <<lookup, delegate>>, result |-> tls]

\* the body of connect: the calls it makes and what it returns, given what the
\* Dns capability answers (dns) and what Tls::connect answers (tls)
DnsTls_connect(socket, addr, connector, dns, tls) ==
    LET first == IterNext(RSplitN2(addr, ":"))
        second == IterNext(first.rest)
        hostname == Unwrapped(first.item)
    IN IF ~IsSome(second.item)
       THEN [calls |-> <<>>, result |-> Panic("unwrap on None")]
       ELSE IF ~IsSome(ParseU16(Unwrapped(second.item)))
       THEN [calls |-> <<>>, result |-> Panic("unwrap on Err")]
       ELSE LET port == Unwrapped(ParseU16(Unwrapped(second.item)))
                lookup == GetHostByName(hostname, "IPv4")
            IN IF dns.tag = "Err"
               THEN [calls |-> <<lookup>>,
                     result |-> Other(DnsErrorInto(Unwrapped(dns.error)))]
               ELSE [calls |-> <<lookup,
                                 TlsConnect(socket,
                                            HostSocketAddr_new(Unwrapped(dns.addr), port),
                                            connector)>>,
                     result |-> tls]

\* what the collaborators may answer
DnsAnswers ==
    { [tag |-> "Ok", addr |-> Some(HostAddr_new("192.0.2.1", None)), error |-> None],
      [tag |-> "Ok", addr |-> Some(HostAddr_new("192.0.2.2", None)), error |-> None],
      [tag |-> "Err", addr |-> None, error |-> Some("NoSuchHost")] }

TlsAnswers == {Done, WouldBlock, Other("HandshakeFailed")}

Connectors == {"connectorA", "connectorB"}

Sockets == {"socket0"}

\* the targets a caller passes: every left ":" right and every part alone
Parts ==
    { <<>>,
      <<"h">>,
      <<"e", "x", "a", "m", "p", "l", "e", ".", "i", "n", "v", "a", "l", "i", "d">>,
      <<"a", ":", "b">>,
      <<"8", "0">>,
      <<"4", "4", "3">>,
      <<"0", "0", "7">>,
      <<"6", "5", "5", "3", "5">>,
      <<"6", "5", "5", "3", "6">>,
      <<"+", "7">>,
      <<"+">>,
      <<"-", "1">>,
      <<"8", "x">> }

Targets == Parts \cup { l \o <<":">> \o r : l \in Parts, r \in Parts }

Invocation(socket, addr, connector, dns, tls, retryOf) ==
    LET r == DnsTls_connect(socket, addr, connector, dns, tls)
    IN [ addr |-> addr, socket |-> socket, connector |-> connector,
         dns |-> dns, tls |-> tls, retryOf |-> retryOf,
         calls |-> r.calls, result |-> r.result ]

\* the arguments of connect a caller may hold
ConnectArguments ==
    [socket : Sockets, addr : Targets, connector : Connectors]

InitConnect == Fresh /\ input \in { Some(a) : a \in ConnectArguments }

\* the caller invokes connect; a panic ends the program
connect(dns, tls) ==
    /\ ~panicked
    /\ conn = None
    /\ LET a == Unwrapped(input)
           i == Invocation(a.socket, a.addr, a.connector, dns, tls, None)
       IN /\ conn' = Some(i)
          /\ panicked' = (i.result.tag = "Panic")
    /\ UNCHANGED <<builderVars, input, parsed>>

\* a caller that got would-block invokes connect again with the same arguments
retry(dns, tls) ==
    /\ ~panicked
    /\ IsSome(conn)
    /\ Unwrapped(conn).result = WouldBlock
    /\ LET a == Unwrapped(input)
           i == Invocation(a.socket, a.addr, a.connector, dns, tls,
                           Some(Unwrapped(conn).calls))
       IN /\ conn' = Some(i)
          /\ panicked' = (i.result.tag = "Panic")
    /\ UNCHANGED <<builderVars, input, parsed>>

NextConnect ==
    \/ \E dns \in DnsAnswers, tls \in TlsAnswers : connect(dns, tls)
    \/ \E dns \in DnsAnswers, tls \in TlsAnswers : retry(dns, tls)

SpecConnect == InitConnect /\ [][NextConnect]_vars

----------------------------------------------------------------------------
(* Claims about DnsTls::connect *)

HasColon(t) == \E i \in 1..Len(t) : t[i] = ":"

\* the text before the last ':' of a target that has one
HostPart(t) == SubSeq(t, 1, LastIndexOf(t, ":") - 1)

\* the text after the last ':' of a target that has one
PortPart(t) == SubSeq(t, LastIndexOf(t, ":") + 1, Len(t))

RECURSIVE DecimalValue(_)
DecimalValue(s) ==
    IF s = <<>> THEN 0
    ELSE 10 * DecimalValue(SubSeq(s, 1, Len(s) - 1)) + DigitValue(s[Len(s)])

\* a decimal unsigned 16-bit integer: digits only, at least one, at most 65535
IsDecimalU16(s) ==
    /\ s # <<>>
    /\ \A i \in 1..Len(s) : IsDigit(s[i])
    /\ DecimalValue(s) <= U16Max

\* a target that ends in ":<port>" with <port> a decimal u16
HasPort(t) == HasColon(t) /\ IsDecimalU16(PortPart(t))

\* "<host>:<port>" with a host and with <port> a decimal u16
WellFormed(t) == HasPort(t) /\ HostPart(t) # <<>>

TlsConnectCalls(c) == { i \in 1..Len(c.calls) : c.calls[i].fn = "Tls::connect" }

\* C1: for a target "<host>:<port>" with <port> a decimal u16, connect looks up
\* the text left of the last colon, with the IPv4 hint, and the port of the
\* address it hands to Tls::connect is the number right of the last colon.
C1_HostLeftPortRight ==
    IsSome(conn) =>
        LET c == Unwrapped(conn)
        IN WellFormed(c.addr) =>
              /\ c.result.tag # "Panic"
              /\ Len(c.calls) >= 1
              /\ c.calls[1] = GetHostByName(HostPart(c.addr), "IPv4")
              /\ \A i \in TlsConnectCalls(c) :
                    Unwrapped(c.calls[i].remote).port = DecimalValue(PortPart(c.addr))

\* C2: for a target without colon, or whose text after the last colon is not a
\* decimal u16, connect returns an error (it does not panic) and calls neither
\* the Dns capability nor Tls::connect.
C2_BadPortIsError ==
    IsSome(conn) =>
        LET c == Unwrapped(conn)
        IN ~HasPort(c.addr) =>
              /\ c.result.tag = "Err"
              /\ c.calls = <<>>

\* C3: for a well-formed target with a host name, when the Dns capability fails
\* the lookup, connect returns the Dns error converted into the Tls error type
\* as a terminal error, and does not call Tls::connect.
C3_DnsFailureIsError ==
    IsSome(conn) =>
        LET c == Unwrapped(conn)
        IN (WellFormed(c.addr) /\ c.dns.tag = "Err") =>
              /\ c.result = Other(DnsErrorInto(Unwrapped(c.dns.error)))
              /\ TlsConnectCalls(c) = {}

\* C7: an invocation whose target parsing and lookup succeed makes two calls,
\* one get_host_by_name and then one Tls::connect on the caller's socket with
\* the resolved address and the caller's connector, and returns what
\* Tls::connect returned; an invocation that retries one that would block looks
\* up the same name and delegates with the same port.
C7_DelegatesOnce ==
    IsSome(conn) =>
        LET c == Unwrapped(conn)
        IN (c.result.tag # "Panic" /\ c.dns.tag = "Ok") =>
              /\ Len(c.calls) = 2
              /\ c.calls[1].fn = "Dns::get_host_by_name"
              /\ c.calls[2].fn = "Tls::connect"
              /\ c.calls[2].socket = Some(c.socket)
              /\ c.calls[2].connector = Some(c.connector)
              /\ Unwrapped(c.calls[2].remote).addr = Unwrapped(c.dns.addr)
              /\ c.result = c.tls
              /\ IsSome(c.retryOf) =>
                    /\ c.calls[1] = Unwrapped(c.retryOf)[1]
                    /\ Unwrapped(c.calls[2].remote).port
                          = Unwrapped(Unwrapped(c.retryOf)[2].remote).port

\* C7 witness: a retry of an invocation that would block, which resolved and
\* would block again
C7_Witness ==
    /\ IsSome(conn)
    /\ IsSome(Unwrapped(conn).retryOf)
    /\ Unwrapped(conn).dns.tag = "Ok"
    /\ Unwrapped(conn).result = WouldBlock
    /\ Len(Unwrapped(conn).calls) = 2

----------------------------------------------------------------------------
(* IpAddr::from_str: the recursive-descent parser behind it.  A reader takes  *)
(* the text and the place of the next character, and answers whether it read, *)
(* the place after what it read, and the value.                               *)

HexLower == <<"a", "b", "c", "d", "e", "f">>

HexUpper == <<"A", "B", "C", "D", "E", "F">>

\* the value of c as a digit, 99 when it is none
CharDigit(c) ==
    IF \E i \in 1..Len(Digits) : Digits[i] = c
    THEN (CHOOSE i \in 1..Len(Digits) : Digits[i] = c) - 1
    ELSE IF \E i \in 1..Len(HexLower) : HexLower[i] = c
    THEN (CHOOSE i \in 1..Len(HexLower) : HexLower[i] = c) + 9
    ELSE IF \E i \in 1..Len(HexUpper) : HexUpper[i] = c
    THEN (CHOOSE i \in 1..Len(HexUpper) : HexUpper[i] = c) + 9
    ELSE 99

NotRead == [ok |-> FALSE, pos |-> 0, val |-> <<>>]

Read(pos, val) == [ok |-> TRUE, pos |-> pos, val |-> val]

\* read_given_char: the place after c when c is next, 0 otherwise
ReadGivenChar(s, pos, c) ==
    IF pos <= Len(s) /\ s[pos] = c THEN pos + 1 ELSE 0

RECURSIVE ReadNumberLoop(_, _, _, _, _, _, _)
\* one turn of read_number's loop on the digit d read (99: none was)
ReadNumberDigit(s, pos, radix, max_digits, upto, r, digit_count, d) ==
    IF d < radix
    THEN IF digit_count + 1 > max_digits \/ r * radix + d >= upto
         THEN NotRead
         ELSE ReadNumberLoop(s, pos + 1, radix, max_digits, upto,
                             r * radix + d, digit_count + 1)
    ELSE IF digit_count = 0 THEN NotRead ELSE Read(pos, r)

ReadNumberLoop(s, pos, radix, max_digits, upto, r, digit_count) ==
    ReadNumberDigit(s, pos, radix, max_digits, upto, r, digit_count,
                    IF pos <= Len(s) THEN CharDigit(s[pos]) ELSE 99)

\* read_number: as many digits as follow, at most max_digits, the value below upto
ReadNumber(s, pos, radix, max_digits, upto) ==
    ReadNumberLoop(s, pos, radix, max_digits, upto, 0, 0)

\* a number read at the place a separator left, nothing when it left none (0)
ReadNumberAt(s, at, radix, max_digits, upto) ==
    IF at = 0 THEN NotRead ELSE ReadNumber(s, at, radix, max_digits, upto)

RECURSIVE ReadIpv4Loop(_, _, _, _)
\* one turn of read_ipv4_addr's loop on the number n read
ReadIpv4Octet(s, i, bs, n) ==
    IF ~n.ok THEN NotRead ELSE ReadIpv4Loop(s, n.pos, i + 1, Append(bs, n.val))

ReadIpv4Loop(s, pos, i, bs) ==
    IF i = 4
    THEN Read(pos, bs)
    ELSE ReadIpv4Octet(s, i, bs,
             ReadNumberAt(s, IF i = 0 THEN pos ELSE ReadGivenChar(s, pos, "."),
                          10, 3, 256))

\* read_ipv4_addr: four numbers below 256 of at most three digits, '.' between
ReadIpv4Addr(s, pos) == ReadIpv4Loop(s, pos, 0, <<>>)

\* an IPv4 address read at the place a separator left, nothing when it left none
ReadIpv4AddrAt(s, at) == IF at = 0 THEN NotRead ELSE ReadIpv4Addr(s, at)

\* the two 16-bit groups an embedded IPv4 address fills
Ipv4Groups(bs) == <<bs[1] * 256 + bs[2], bs[3] * 256 + bs[4]>>

RECURSIVE ReadGroups(_, _, _, _, _)
\* one turn of read_groups' loop on what was read after the separator: v4, an
\* IPv4 address (tried unless this is the last group), and group, a number
ReadGroupsTurn(s, pos, limit, i, groups, v4, group) ==
    IF v4.ok
    THEN [groups |-> groups \o Ipv4Groups(v4.val), ipv4 |-> TRUE, pos |-> v4.pos]
    ELSE IF group.ok
    THEN ReadGroups(s, group.pos, limit, i + 1, Append(groups, group.val))
    ELSE [groups |-> groups, ipv4 |-> FALSE, pos |-> pos]

ReadGroupsAt(s, pos, limit, i, groups, at) ==
    ReadGroupsTurn(s, pos, limit, i, groups,
                   IF i < limit - 1 THEN ReadIpv4AddrAt(s, at) ELSE NotRead,
                   ReadNumberAt(s, at, 16, 4, 65536))

\* read_groups: up to limit groups, ':' between, the last two possibly written
\* as an IPv4 address; answers the groups, whether an IPv4 address ended them,
\* and the place after them
ReadGroups(s, pos, limit, i, groups) ==
    IF i >= limit
    THEN [groups |-> groups, ipv4 |-> FALSE, pos |-> pos]
    ELSE ReadGroupsAt(s, pos, limit, i, groups,
                      IF i = 0 THEN pos ELSE ReadGivenChar(s, pos, ":"))

Zeros(n) == [i \in 1..n |-> 0]

\* ipv6_addr_from_head_tail: the groups of zeros missing put in between
Ipv6FromHeadTail(head, tail) ==
    Read(tail.pos,
         head.groups \o Zeros(8 - Len(head.groups) - Len(tail.groups)) \o tail.groups)

\* the place after "::", 0 when it is not next
ReadTwoColons(s, pos) ==
    IF pos + 1 <= Len(s) /\ s[pos] = ":" /\ s[pos + 1] = ":" THEN pos + 2 ELSE 0

Ipv6AfterColons(s, head, at) ==
    IF at = 0
    THEN NotRead
    ELSE Ipv6FromHeadTail(head,
             ReadGroups(s, at, 8 - (Len(head.groups) + 1), 0, <<>>))

Ipv6AfterHead(s, head) ==
    IF Len(head.groups) = 8
    THEN Read(head.pos, head.groups)
    ELSE IF head.ipv4
    THEN NotRead
    ELSE Ipv6AfterColons(s, head, ReadTwoColons(s, head.pos))

\* read_ipv6_addr: eight groups, or fewer around one "::" that stands for the
\* groups of zeros missing; no IPv4 address before the "::"
ReadIpv6Addr(s, pos) == Ipv6AfterHead(s, ReadGroups(s, pos, 8, 0, <<>>))

\* read_or: the first reader that reads
ReadOr(v4, v6) ==
    IF v4.ok
    THEN Read(v4.pos, [family |-> "V4", octets |-> v4.val])
    ELSE IF v6.ok
    THEN Read(v6.pos, [family |-> "V6", octets |-> v6.val])
    ELSE NotRead

\* read_ip_addr: an IPv4 address, or else an IPv6 address
ReadIpAddr(s, pos) == ReadOr(ReadIpv4Addr(s, pos), ReadIpv6Addr(s, pos))

\* read_till_eof: what was read counts when nothing follows it
ReadTillEof(s, r) == IF r.ok /\ r.pos = Len(s) + 1 THEN Some(r.val) ELSE None

\* IpAddr::from_str: Some(ip) for Ok, None for Err
IpAddr_from_str(s) == ReadTillEof(s, ReadIpAddr(s, 1))

----------------------------------------------------------------------------
(* HostAddr::from_str *)

\* U256, the capacity in bytes of the hostname String
HostnameCapacity == 256

\* heapless::String::from_str: Err when the text does not fit the capacity
String_from_str(s) == IF Len(s) <= HostnameCapacity THEN Some(s) ELSE None

HostAddr_ip(a) == a.ip

HostAddr_hostname(a) == a.hostname

\* from_str: the `?` returns AddrParseError before the String is made; the
\* unwrap panics when the text does not fit the String
\* the body of from_str on ip, what IpAddr::from_str answered, and hostname,
\* what String::from_str answered
FromStrResult(ip, hostname) ==
    IF ~IsSome(ip)
    THEN [tag |-> "Err", value |-> None, error |-> Some("AddrParseError")]
    ELSE IF ~IsSome(hostname)
    THEN [tag |-> "Panic", value |-> None, error |-> Some("unwrap on Err")]
    ELSE [tag |-> "Ok",
          value |-> Some(HostAddr_new(Unwrapped(ip), Some(Unwrapped(hostname)))),
          error |-> None]

\* a from_str that makes the hostname String, unwrapped, before it parses
HostAddr_from_str_hostname_first(s) ==
    IF ~IsSome(String_from_str(s))
    THEN [tag |-> "Panic", value |-> None, error |-> Some("unwrap on Err")]
    ELSE FromStrResult(IpAddr_from_str(s), String_from_str(s))

HostAddr_from_str(s) == FromStrResult(IpAddr_from_str(s), String_from_str(s))

----------------------------------------------------------------------------
(* The texts a caller passes to HostAddr::from_str *)

OctetTexts ==
    { <<>>, <<"0">>, <<"2", "5">>, <<"0", "0", "7">>, <<"2", "5", "5">>,
      <<"2", "5", "6">>, <<"a">> }

\* every a.b.c.d over OctetTexts
DottedTexts ==
    { a \o <<".">> \o b \o <<".">> \o c \o <<".">> \o d :
        a \in OctetTexts, b \in OctetTexts, c \in OctetTexts, d \in OctetTexts }

LiteralTexts ==
    { <<":", ":">>,
      <<":", ":", "1">>,
      <<"1", ":", ":">>,
      <<"1", ":", "2", ":", "3", ":", "4", ":", "5", ":", "6", ":", "7", ":", "8">>,
      <<"1", ":", "2", ":", "3", ":", "4", ":", "5", ":", "6", ":", "7">>,
      <<"1", ":", "2", ":", "3", ":", "4", ":", "5", ":", "6", ":", "7", ":", "8", ":", "9">>,
      <<"1", ":", ":", "2", ":", ":", "3">>,
      <<":", ":", ":">>,
      <<"f", "f", "f", "f", ":", "f", "f", "f", "f", ":", "f", "f", "f", "f", ":", "f", "f", "f", "f", ":", "f", "f", "f", "f", ":", "f", "f", "f", "f", ":", "f", "f", "f", "f", ":", "f", "f", "f", "f">>,
      <<"F", "F", "F", "F", ":", ":", "a", "b", "c", "d">>,
      <<":", ":", "f", "f", "f", "f", ":", "1", "9", "2", ".", "0", ".", "2", ".", "1">>,
      <<"1", ":", "2", ":", "3", ":", "4", ":", "5", ":", "6", ":", "1", ".", "2", ".", "3", ".", "4">>,
      <<"f", "f", "f", "f", ":", "f", "f", "f", "f", ":", "f", "f", "f", "f", ":", "f", "f", "f", "f", ":", "f", "f", "f", "f", ":", "f", "f", "f", "f", ":", "2", "5", "5", ".", "2", "5", "5", ".", "2", "5", "5", ".", "2", "5", "5">>,
      <<"1", ".", "2", ".", "3", ".", "4", ":", ":">>,
      <<"1", ":", "2", ":", "3", ":", "4", ":", "5", ":", "6", ":", "7", ":", ":">>,
      <<"1", ":", "2", ":", "3", ":", "4", ":", "5", ":", "6", ":", "7", ":", ":", "8">>,
      <<"1", "2", "3", "4", "5", ":", ":">>,
      <<"g", ":", ":", "1">>,
      <<":", ":", "1", ".", "2", ".", "3", ".", "2", "5", "6">>,
      <<"1", ":", "2", ":", "3", ":", "4", ":", "5", ":", "6", ":", "7", ":", "1", ".", "2", ".", "3", ".", "4">>,
      <<":", "1">>,
      <<"1", ":">>,
      <<"f", "e", "8", "0", ":", ":", "1", "%", "e", "t", "h", "0">>,
      <<" ", ":", ":", "1">>,
      <<"2", "0", "3", ".", "0", ".", "1", "1", "3", ".", "5">>,
      <<"e", "x", "a", "m", "p", "l", "e", ".", "i", "n", "v", "a", "l", "i", "d">>,
      <<"1", ".", "2", ".", "3">>,
      <<"1", ".", "2", ".", "3", ".", "4", ".", "5">>,
      <<"1", ".", "2", ".", "3", ".", "4", " ">> }

\* how far past HostnameCapacity the long texts go
MaxOver == 2

Repeated(c, n) == [i \in 1..n |-> c]

\* texts about as long as the hostname String and longer: digits alone, and a
\* valid literal with digits or blanks after it
LongTexts ==
    UNION { { Repeated("1", n),
              <<"1", ".", "2", ".", "3", ".">> \o Repeated("0", n),
              <<":", ":">> \o Repeated("0", n),
              <<"1", ".", "2", ".", "3", ".", "4">> \o Repeated(" ", n) } :
            n \in (HostnameCapacity - 8)..(HostnameCapacity + MaxOver) }

AddrTexts == DottedTexts \cup LiteralTexts \cup LongTexts

InitAddr == Fresh /\ input \in { Some(t) : t \in AddrTexts }

\* the caller parses its text; a panic ends the program
from_str ==
    /\ ~panicked
    /\ parsed = None
    /\ parsed' = Some([text |-> Unwrapped(input),
                       result |-> HostAddr_from_str(Unwrapped(input))])
    /\ panicked' = (Unwrapped(parsed').result.tag = "Panic")
    /\ UNCHANGED <<builderVars, input, conn>>

NextAddr == from_str

SpecAddr == InitAddr /\ [][NextAddr]_vars

----------------------------------------------------------------------------
(* Claims about HostAddr::from_str *)

\* C8: from_str of a text that is an IPv4 or IPv6 literal succeeds (no panic),
\* with ip() the address the literal denotes and hostname() the whole text; of
\* any other text, whatever its length, it fails with AddrParseError.
FromStrAgrees(p, literal) ==
    IF IsSome(literal)
    THEN /\ p.result.tag = "Ok"
         /\ HostAddr_ip(Unwrapped(p.result.value)) = Unwrapped(literal)
         /\ HostAddr_hostname(Unwrapped(p.result.value)) = Some(p.text)
    ELSE /\ p.result.tag = "Err"
         /\ p.result.error = Some("AddrParseError")

C8_FromStr ==
    IsSome(parsed) =>
        FromStrAgrees(Unwrapped(parsed), IpAddr_from_str(Unwrapped(parsed).text))

\* C8 witness: the longest literal, six groups and an embedded IPv4 address,
\* parsed with its text kept whole as the hostname
C8_Witness ==
    /\ IsSome(parsed)
    /\ Unwrapped(parsed).result.tag = "Ok"
    /\ Len(Unwrapped(parsed).text) = 45
    /\ HostAddr_ip(Unwrapped(Unwrapped(parsed).result.value)).family = "V6"
    /\ HostAddr_ip(Unwrapped(Unwrapped(parsed).result.value)).octets[8] = 65535
    /\ HostAddr_hostname(Unwrapped(Unwrapped(parsed).result.value))
          = Some(Unwrapped(parsed).text)

====
